---- MODULE Spec2Model ----
(***************************************************************************)
(* Model of dtl::raii::fd (lenient variant, part_000, and strict variant,  *)
(* part_001), dtl::raii::mmap (part_000) and dtl::branchless               *)
(* (branchless.hh).                                                        *)
(*                                                                         *)
(* The operating system is an unconstrained environment: every ::close,    *)
(* ::fstat, ::mmap and ::munmap call may succeed or fail.  The retry loop  *)
(* of fd::close is modelled one ::close call per step (pc = "close"); all  *)
(* other code of an operation is executed in the step that begins or ends  *)
(* the operation.                                                          *)
(*                                                                         *)
(* Spec is the raii classes; FairSpec is class fd with ::close not         *)
(* interrupted for ever; TwinSpec is the two fd classes side by side;      *)
(* KernSpec is the functions of branchless.hh, on integers represented by  *)
(* their bits so that all four widths are computed in full.                *)
(***************************************************************************)
EXTENDS Integers, Sequences, FiniteSets, TLC

\* ------------------------------------------------------------- bounds
MaxFd == 1          \* raw descriptors are 0 .. MaxFd
MaxEintr == 1       \* at most MaxEintr interrupted ::close calls per release
MaxLen == 2         \* file sizes and mapping lengths are 0 .. MaxLen

\* ------------------------------------------------------------- constants
invalid == -1       \* fd::invalid
MAP_FAILED == -1    \* (void *) -1
nullptr == 0

FD == 0..MaxFd                     \* non-sentinel descriptor values
Raw == FD \cup {invalid}           \* what an int argument may be
FdNames == {"a", "b"}              \* the caller's fd objects
Local == "handle"                  \* the local fd of mmap::mmap(raii::fd &&)
FdAll == FdNames \cup {Local}

Addr == {1, 2}                     \* the addresses ::mmap may return
Lens == 0..MaxLen
MmNames == {"m", "n"}              \* the caller's mmap objects
Region == [address : Addr \cup {MAP_FAILED, nullptr}, length : Lens]
NoRegion == [address |-> MAP_FAILED, length |-> 0]
VARIABLES
    run,        \* what the program exercises: "fdA" (fd of part_000),
                \* "fdB" (fd of part_001), "mmap" (mmap and fd of part_000),
                \* "twin" (both fd classes, fed the same operations and the
                \* same ::close results) or "kernel" (branchless.hh)
    fd,         \* fd[w]: the field `handle` of fd object w
    live,       \* the fd objects whose lifetime has begun and not ended
    mm,         \* mm[m]: the fields `address` and `length` of mmap object m
    mlive,      \* the mmap objects whose lifetime has begun and not ended
    mapped,     \* OS: mapped[a] = length of the mapping at address a, 0 if none
    pc,         \* "idle", "close" (inside the loop of fd::close), "halt"
    op,         \* the operation in progress, or the last one completed
    calls,      \* the OS calls issued by that operation, in order
    err,        \* the error it raised ("none" if it returned normally)
    ret,        \* the value it returned (<<>> for void)
    adopted,    \* monitor: descriptors adopted from outside so far
    closed,     \* monitor: successful ::close calls per descriptor (2 = two or more)
    fdDisc,     \* monitor: TRUE while the run keeps to adopt-once/move/swap/destroy
    badUnmap,   \* monitor: ::munmap was called on something not mapped as given
    mmDisc,     \* monitor: TRUE while the run keeps to construct/move/swap/destroy
    twin,       \* run "twin": twin[v] is a program using the fd class of variant v
    kern        \* run "kernel": one call of a function of branchless.hh

vars == <<run, fd, live, mm, mlive, mapped, pc, op, calls, err, ret,
          adopted, closed, fdDisc, badUnmap, mmDisc, twin, kern>>

fdVars == <<fd, live>>
mmVars == <<mm, mlive, mapped>>
fdMon == <<adopted, closed, fdDisc>>
mmMon == <<badUnmap, mmDisc>>

\* which of the two fd classes the run uses
Variant == IF run = "fdB" THEN "B" ELSE "A"

Op(name, self, other, raw, len) ==
    [name |-> name, self |-> self, other |-> other, raw |-> raw, len |-> len]
Call(c, a, l, r) == [call |-> c, arg |-> a, len |-> l, res |-> r]

\* ------------------------------------------------------------- monitors
MonOff == [adopted |-> {}, closed |-> [h \in FD |-> 0], disc |-> FALSE]
Mon == [adopted |-> adopted, closed |-> closed, disc |-> fdDisc]
\* a raw value is adopted from outside (constructor, operator=(int), reset)
MonAdopt(raw) ==
    IF ~fdDisc \/ raw \in adopted THEN MonOff
    ELSE IF raw = invalid THEN Mon
    ELSE [Mon EXCEPT !.adopted = @ \cup {raw}]
\* ::close(h) returned 0
MonClosed(h) ==
    IF ~fdDisc THEN MonOff
    ELSE [Mon EXCEPT !.closed[h] = IF @ < 2 THEN @ + 1 ELSE 2]
SetMon(m) ==
    /\ adopted' = m.adopted
    /\ closed' = m.closed
    /\ fdDisc' = m.disc

\* ------------------------------------------------------------- the OS
\* what one ::close call can return: 0, or -1 with errno EINTR or another errno
CloseResults == {"ok", "EINTR", "EIO"}
Eintrs == Cardinality({i \in DOMAIN calls : calls[i].res = "EINTR"})

\* ------------------------------------------------------------- class fd
\* operator bool
FdBool(h) == h # invalid

\* part_001 without the tests in front of close()
CallsCloseAlways(v, h) == TRUE

\* the test in front of each call of close() in part_001 (`if (handle !=
\* invalid) close();`); part_000 calls close() unconditionally
CallsClose(v, h) == IF v = "B" THEN h # invalid ELSE TRUE

\* a close() that throws EBADF on the sentinel in part_000 too
CloseEntryThrows(v, h) == IF h = invalid THEN "EBADF" ELSE "loop"

\* a close() that returns at once whatever the handle is
CloseEntrySkip(v, h) == IF v = "A" \/ h # invalid THEN "return" ELSE "EBADF"

\* the first statement of fd::close(): part_000 returns on the sentinel,
\* part_001 throws EBADF; any other handle enters the loop
CloseEntry(v, h) ==
    IF h = invalid THEN (IF v = "A" THEN "return" ELSE "EBADF") ELSE "loop"

\* a loop that takes EINTR for success
LoopAfterEintrBreaks(r) == IF r \in {"ok", "EINTR"} THEN "break" ELSE "throw"

\* a loop that treats EINTR like any other errno
LoopAfterNoRetry(r) == IF r = "ok" THEN "break" ELSE "throw"

\* the body of the loop of fd::close() after ::close returned r
LoopAfter(r) ==
    IF r = "ok" THEN "break" ELSE IF r = "EINTR" THEN "continue" ELSE "throw"

\* `handle = invalid;` at the end of fd::close()
FdAfterClose(f, w) == [f EXCEPT ![w] = invalid]

\* a move that copies the handle and forgets `other.handle = invalid;`
FdMoveFromCopy(f, d, s) == [f EXCEPT ![d] = f[s]]

\* `handle = other.handle; other.handle = invalid;`
FdMoveFrom(f, d, s) ==
    LET g == [f EXCEPT ![d] = f[s]] IN [g EXCEPT ![s] = invalid]

\* `handle = fd;`
FdAdopt(f, d, raw) == [f EXCEPT ![d] = raw]

\* a release() that forgets `handle = invalid;`
FdReleaseKeeps(f, w) == f

\* `int tmp = handle; handle = invalid; return tmp;`
FdReleaseOf(f, w) == [f EXCEPT ![w] = invalid]

\* branchless::swap(a, b): the two integers exchanged
Swap(x, y) == <<y, x>>

\* a swap that overwrites one side only
FdSwapCopies(f, x, y) == [f EXCEPT ![x] = f[y]]

\* branchless::swap(handle, other.handle)
FdSwapOf(f, x, y) ==
    LET p == Swap(f[x], f[y]) IN [f EXCEPT ![x] = p[1], ![y] = p[2]]

\* the operations that begin with close()
ClosingOps == {"FdAssignMove", "FdAssignRaw", "FdReset", "FdDestroy", "MmCtorFd"}

\* the fd object an operation calls close() on
CloseTarget(o) == IF o.name = "MmCtorFd" THEN Local ELSE o.self

\* an operation that stops after close(): the new value is never taken
FdRestNothing(o, f) == f

\* the rest of operation o once close() has returned; f is the fd state then
FdRest(o, f) ==
    CASE o.name = "FdAssignMove" -> FdMoveFrom(f, o.self, o.other)
      [] o.name \in {"FdAssignRaw", "FdReset"} -> FdAdopt(f, o.self, o.raw)
      [] OTHER -> f
\* the objects alive once operation o has returned normally
LiveRest(o, lv) ==
    CASE o.name = "FdDestroy" -> lv \ {o.self}
      [] o.name = "MmCtorFd" -> lv \ {Local}
      [] OTHER -> lv

\* what the monitor sees when operation o has returned normally
MonRest(o, m) ==
    IF o.name \in {"FdAssignRaw", "FdReset"}
    THEN (IF ~m.disc \/ o.raw \in m.adopted THEN MonOff
          ELSE IF o.raw = invalid THEN m
          ELSE [m EXCEPT !.adopted = @ \cup {o.raw}])
    ELSE m

\* ------------------------------------------------------------- fd: steps
FdRun == run \in {"fdA", "fdB"}

\* operation o returns normally; f is the fd state and m the monitor then
FdComplete(o, f, m) ==
    /\ fd' = FdRest(o, f)
    /\ live' = LiveRest(o, live)
    /\ pc' = "idle"
    /\ err' = "none"
    /\ SetMon(MonRest(o, m))

\* a failure that leaves the object at the sentinel
FdRaiseClears(o, e) ==
    /\ fd' = [fd EXCEPT ![o.self] = invalid]
    /\ live' = IF o.name = "FdDestroy" THEN live \ {o.self} ELSE live
    /\ pc' = "idle"
    /\ err' = e
    /\ SetMon(MonOff)

\* close() throws e out of operation o: nothing after close() is executed; a
\* destructor that throws has still ended the lifetime of its object
FdRaise(o, e) ==
    /\ fd' = IF o.name = "FdDestroy" THEN [fd EXCEPT ![o.self] = invalid] ELSE fd
    /\ live' = IF o.name = "FdDestroy" THEN live \ {o.self} ELSE live
    /\ pc' = "idle"
    /\ err' = e
    /\ SetMon(MonOff)

\* operation o begins: it calls close() on its own handle (part_001: unless
\* the handle is the sentinel)
FdBegin(o) ==
    /\ pc = "idle"
    /\ FdRun
    /\ op' = o
    /\ calls' = <<>>
    /\ ret' = <<>>
    /\ UNCHANGED <<run, twin, kern, mmVars, mmMon>>
    /\ LET h == fd[o.self]
           entry == IF CallsClose(Variant, h) THEN CloseEntry(Variant, h) ELSE "return"
       IN CASE entry = "loop" ->
                 /\ pc' = "close"
                 /\ err' = "none"
                 /\ UNCHANGED <<fdVars, fdMon>>
            [] entry = "EBADF" -> FdRaise(o, "EBADF")
            [] OTHER -> FdComplete(o, fd, Mon)

\* fd(int fd = invalid)
FdConstruct(w, raw) ==
    /\ pc = "idle"
    /\ w \notin live
    /\ run = "mmap" => w = "a"      \* one fd object feeds mmap's constructor
    /\ fd' = FdAdopt(fd, w, raw)
    /\ live' = live \cup {w}
    /\ op' = Op("FdConstruct", w, w, raw, 0)
    /\ calls' = <<>>
    /\ err' = "none"
    /\ ret' = <<>>
    /\ SetMon(MonAdopt(raw))
    /\ UNCHANGED <<run, twin, kern, mmVars, mmMon, pc>>

\* fd(fd && other)
FdMoveConstruct(w, s) ==
    /\ pc = "idle"
    /\ FdRun
    /\ w \notin live
    /\ s \in live
    /\ fd' = FdMoveFrom(fd, w, s)
    /\ live' = live \cup {w}
    /\ op' = Op("FdMoveConstruct", w, s, invalid, 0)
    /\ calls' = <<>>
    /\ err' = "none"
    /\ ret' = <<>>
    /\ UNCHANGED <<run, twin, kern, mmVars, mmMon, fdMon, pc>>

\* operator=(fd && other)
FdAssignMove(d, s) ==
    /\ d \in live
    /\ s \in live
    /\ FdBegin(Op("FdAssignMove", d, s, invalid, 0))

\* operator=(int fd)
FdAssignRaw(d, raw) ==
    /\ d \in live
    /\ FdBegin(Op("FdAssignRaw", d, d, raw, 0))

\* reset(int fd = invalid)
FdReset(d, raw) ==
    /\ d \in live
    /\ FdBegin(Op("FdReset", d, d, raw, 0))

\* ~fd()
FdDestroy(d) ==
    /\ d \in live
    /\ FdBegin(Op("FdDestroy", d, d, invalid, 0))

\* release()
FdRelease(w) ==
    /\ pc = "idle"
    /\ FdRun
    /\ w \in live
    /\ ret' = <<fd[w]>>
    /\ fd' = FdReleaseOf(fd, w)
    /\ op' = Op("FdRelease", w, w, invalid, 0)
    /\ calls' = <<>>
    /\ err' = "none"
    /\ SetMon(MonOff)
    /\ UNCHANGED <<run, twin, kern, live, mmVars, mmMon, pc>>

\* swap(fd & other), other a different object
FdSwap(x, y) ==
    /\ pc = "idle"
    /\ FdRun
    /\ x \in live
    /\ y \in live
    /\ x # y
    /\ fd' = FdSwapOf(fd, x, y)
    /\ op' = Op("FdSwap", x, y, invalid, 0)
    /\ calls' = <<>>
    /\ err' = "none"
    /\ ret' = <<>>
    /\ UNCHANGED <<run, twin, kern, live, mmVars, mmMon, fdMon, pc>>

\* get() and operator int()
FdGet(w) ==
    /\ pc = "idle"
    /\ FdRun
    /\ w \in live
    /\ ret' = <<fd[w]>>
    /\ op' = Op("FdGet", w, w, invalid, 0)
    /\ calls' = <<>>
    /\ err' = "none"
    /\ UNCHANGED <<run, twin, kern, fdVars, mmVars, mmMon, fdMon, pc>>

\* ------------------------------------------------------------- class mmap
\* operator bool
MmBool(r) == r.address # MAP_FAILED

\* what ::munmap(address, length) can return: a length of 0 is EINVAL
MunmapResults(r) == IF r.length = 0 THEN {"EINVAL"} ELSE {"ok", "EINVAL"}
\* the OS after ::munmap(address, length) returned 0
OsUnmap(mp, r) == IF r.address \in Addr THEN [mp EXCEPT ![r.address] = 0] ELSE mp
\* (address, length) is a mapping the OS has, with that length
IsMapped(r) == r.address \in Addr /\ r.length > 0 /\ mapped[r.address] = r.length
\* the addresses ::mmap can return for a request of n bytes (none: it fails)
FreeAddr(n) == IF n = 0 THEN {} ELSE {a \in Addr : mapped[a] = 0}

\* the pairs a caller passes to mmap::reset: the default arguments, the
\* sentinel pair, and every mapping the OS has
ResetArgs ==
    {[address |-> nullptr, length |-> 0], NoRegion}
    \cup {[address |-> a, length |-> mapped[a]] : a \in {x \in Addr : mapped[x] > 0}}

\* the first statement of mmap::close()
MmCloseEntry(r) == IF r.address = MAP_FAILED THEN "return" ELSE "munmap"

\* `address = MAP_FAILED; length = 0;` at the end of mmap::close()
MmAfterClose(f, m) == [f EXCEPT ![m] = NoRegion]

\* a move that forgets `other.length = 0;`
MmMoveFromKeepsLength(f, d, s) ==
    [f EXCEPT ![d] = f[s], ![s] = [address |-> MAP_FAILED, length |-> f[s].length]]

\* a move that copies the pair and leaves the source as it was
MmMoveFromCopy(f, d, s) == [f EXCEPT ![d] = f[s]]

\* `address = other.address; other.address = MAP_FAILED; length =
\* other.length; other.length = 0;`
MmMoveFrom(f, d, s) ==
    LET g1 == [f EXCEPT ![d].address = f[s].address]
        g2 == [g1 EXCEPT ![s].address = MAP_FAILED]
        g3 == [g2 EXCEPT ![d].length = g2[s].length]
    IN [g3 EXCEPT ![s].length = 0]

\* `auto value = std::make_pair(address, length); address = MAP_FAILED;
\* length = 0; return value;`
MmReleaseOf(f, m) == [f EXCEPT ![m] = NoRegion]

\* `this->address = address; this->length = length;`
MmAdopt(f, m, r) == [f EXCEPT ![m] = r]

\* a swap that exchanges the addresses and forgets the lengths
MmSwapAddressOnly(f, x, y) ==
    LET p == Swap(f[x].address, f[y].address)
    IN [f EXCEPT ![x].address = p[1], ![y].address = p[2]]

\* the two branchless::swap calls of mmap::swap
MmSwapOf(f, x, y) ==
    LET p == Swap(f[x].address, f[y].address)
        q == Swap(f[x].length, f[y].length)
    IN [f EXCEPT ![x] = [address |-> p[1], length |-> q[1]],
                 ![y] = [address |-> p[2], length |-> q[2]]]

\* the rest of operation o once mmap::close() has returned
MmRest(o, f) ==
    CASE o.name = "MmAssignMove" -> MmMoveFrom(f, o.self, o.other)
      [] o.name = "MmReset" -> MmAdopt(f, o.self, [address |-> o.raw, length |-> o.len])
      [] OTHER -> f

\* the monitor of the construct/move/swap/destroy discipline
SetMmMon(disc, bad) ==
    /\ mmDisc' = disc
    /\ badUnmap' = (disc /\ bad)

\* operation o of an mmap object: close(), then the rest of o
MmBegin(o) ==
    /\ pc = "idle"
    /\ run = "mmap"
    /\ o.self \in mlive
    /\ op' = o
    /\ ret' = <<>>
    /\ UNCHANGED <<run, twin, kern, fdVars, fdMon, pc>>
    /\ LET r == mm[o.self]
           keeps == mmDisc /\ o.name # "MmReset"
       IN IF MmCloseEntry(r) = "return"
          THEN /\ calls' = <<>>
               /\ err' = "none"
               /\ mm' = MmRest(o, mm)
               /\ mlive' = IF o.name = "MmDestroy" THEN mlive \ {o.self} ELSE mlive
               /\ mapped' = mapped
               /\ SetMmMon(keeps, badUnmap)
          ELSE \E res \in MunmapResults(r) :
               /\ calls' = <<Call("munmap", r.address, r.length, res)>>
               /\ IF res = "ok"
                  THEN /\ err' = "none"
                       /\ mm' = MmRest(o, MmAfterClose(mm, o.self))
                       /\ mlive' = IF o.name = "MmDestroy" THEN mlive \ {o.self} ELSE mlive
                       /\ mapped' = OsUnmap(mapped, r)
                       /\ SetMmMon(keeps, badUnmap \/ ~IsMapped(r))
                  ELSE /\ err' = res
                       /\ mm' = IF o.name = "MmDestroy" THEN [mm EXCEPT ![o.self] = NoRegion] ELSE mm
                       /\ mlive' = IF o.name = "MmDestroy" THEN mlive \ {o.self} ELSE mlive
                       /\ mapped' = mapped
                       /\ SetMmMon(FALSE, FALSE)

\* ------------------------------------------------------------- mmap: steps
\* mmap(raii::fd && fd, protection, flags, offset), up to the end of the body:
\* the local `handle` takes the descriptor, ::fstat, ::mmap; then the local is
\* destroyed (on the way out, or while the exception unwinds), which is
\* fd::close() of part_000
MmCtorFd(m, f) ==
    /\ pc = "idle"
    /\ run = "mmap"
    /\ m \notin mlive
    /\ f \in live
    /\ LET h == fd[f]
           o == Op("MmCtorFd", m, f, h, 0)
           f1 == FdMoveFrom(fd, Local, f)
       IN /\ op' = o
          /\ ret' = <<>>
          /\ \E statOk \in BOOLEAN, size \in Lens, mapOk \in BOOLEAN, a \in Addr :
               /\ h = invalid => ~statOk              \* ::fstat(-1) is EBADF
               /\ ~statOk => (size = 0 /\ ~mapOk)
               /\ mapOk => a \in FreeAddr(size)
               /\ ~mapOk => a = 1                     \* a is unused then
               /\ calls' = IF ~statOk THEN <<Call("fstat", h, 0, "EBADF")>>
                           ELSE <<Call("fstat", h, size, "ok"),
                                  Call("mmap", IF mapOk THEN a ELSE MAP_FAILED, size,
                                       IF mapOk THEN "ok" ELSE "ENOMEM")>>
               /\ mapped' = IF mapOk THEN [mapped EXCEPT ![a] = size] ELSE mapped
               /\ LET thrown == IF ~statOk THEN "EBADF" ELSE IF ~mapOk THEN "ENOMEM" ELSE "none"
                      built == IF mapOk THEN [address |-> a, length |-> size] ELSE NoRegion
                  IN IF CloseEntry("A", h) = "loop"
                     THEN /\ pc' = "close"
                          /\ err' = thrown
                          /\ fd' = f1
                          /\ live' = live \cup {Local}
                          /\ mm' = [mm EXCEPT ![m] = built]
                          /\ mlive' = mlive
                     ELSE /\ pc' = "idle"
                          /\ err' = thrown
                          /\ fd' = f1
                          /\ live' = live
                          /\ mm' = [mm EXCEPT ![m] = built]
                          /\ mlive' = IF thrown = "none" THEN mlive \cup {m} ELSE mlive
          /\ UNCHANGED <<run, twin, kern, fdMon, mmMon>>

\* the end of mmap(raii::fd &&, ...) once close() of the local has returned
CtorExit(o, f) ==
    /\ fd' = f
    /\ live' = live \ {Local}
    /\ pc' = "idle"
    /\ err' = err
    /\ mlive' = IF err = "none" THEN mlive \cup {o.self} ELSE mlive
    /\ UNCHANGED <<mm, mapped, mmMon>>

\* close() of the local throws e: with an exception already in flight that is
\* std::terminate; otherwise e leaves the constructor, no object exists and
\* nothing unmaps what ::mmap returned
CtorCloseThrows(o, e) ==
    /\ mm' = [mm EXCEPT ![o.self] = NoRegion]
    /\ UNCHANGED <<mlive, mapped>>
    /\ IF err # "none"
       THEN /\ pc' = "halt"
            /\ err' = "terminate"
            /\ UNCHANGED <<fdVars, mmMon>>
       ELSE /\ pc' = "idle"
            /\ err' = e
            /\ fd' = [fd EXCEPT ![Local] = invalid]
            /\ live' = live \ {Local}
            /\ SetMmMon(FALSE, FALSE)

\* one iteration of `while (true)` in fd::close()
FdCloseLoop ==
    /\ pc = "close"
    /\ LET o == op
           w == CloseTarget(o)
           h == fd[w]
       IN \E r \in CloseResults :
            /\ r = "EINTR" => Eintrs < MaxEintr
            /\ calls' = Append(calls, Call("close", h, 0, r))
            /\ UNCHANGED <<run, twin, kern, op, ret>>
            /\ CASE LoopAfter(r) = "continue" ->
                      UNCHANGED <<fdVars, mmVars, fdMon, mmMon, pc, err>>
                 [] LoopAfter(r) = "break" ->
                      IF o.name = "MmCtorFd"
                      THEN CtorExit(o, FdAfterClose(fd, w)) /\ SetMon(MonClosed(h))
                      ELSE /\ FdComplete(o, FdAfterClose(fd, w), MonClosed(h))
                           /\ UNCHANGED <<mmVars, mmMon>>
                 [] OTHER ->
                      IF o.name = "MmCtorFd"
                      THEN CtorCloseThrows(o, r) /\ SetMon(MonOff)
                      ELSE FdRaise(o, r) /\ UNCHANGED <<mmVars, mmMon>>

\* mmap(std::size_t length, protection, flags, offset)
MmCtorLen(m, n) ==
    /\ pc = "idle"
    /\ run = "mmap"
    /\ m \notin mlive
    /\ op' = Op("MmCtorLen", m, m, invalid, n)
    /\ ret' = <<>>
    /\ \E mapOk \in BOOLEAN, a \in Addr :
         /\ mapOk => a \in FreeAddr(n)
         /\ ~mapOk => a = 1
         /\ calls' = <<Call("mmap", IF mapOk THEN a ELSE MAP_FAILED, n,
                            IF mapOk THEN "ok" ELSE "ENOMEM")>>
         /\ err' = IF mapOk THEN "none" ELSE "ENOMEM"
         /\ mapped' = IF mapOk THEN [mapped EXCEPT ![a] = n] ELSE mapped
         /\ mm' = IF mapOk THEN [mm EXCEPT ![m] = [address |-> a, length |-> n]] ELSE mm
         /\ mlive' = IF mapOk THEN mlive \cup {m} ELSE mlive
    /\ UNCHANGED <<run, twin, kern, fdVars, fdMon, mmMon, pc>>

\* mmap(mmap && other)
MmMoveConstruct(m, s) ==
    /\ pc = "idle"
    /\ run = "mmap"
    /\ m \notin mlive
    /\ s \in mlive
    /\ mm' = MmMoveFrom(mm, m, s)
    /\ mlive' = mlive \cup {m}
    /\ op' = Op("MmMoveConstruct", m, s, invalid, 0)
    /\ calls' = <<>>
    /\ err' = "none"
    /\ ret' = <<>>
    /\ UNCHANGED <<run, twin, kern, fdVars, fdMon, mmMon, mapped, pc>>

\* operator=(mmap && other)
MmAssignMove(d, s) ==
    /\ s \in mlive
    /\ MmBegin(Op("MmAssignMove", d, s, invalid, 0))

\* ~mmap()
MmDestroy(m) == MmBegin(Op("MmDestroy", m, m, invalid, 0))

\* reset(void * address = nullptr, std::size_t length = 0)
MmReset(m, r) == MmBegin(Op("MmReset", m, m, r.address, r.length))

\* release()
MmRelease(m) ==
    /\ pc = "idle"
    /\ run = "mmap"
    /\ m \in mlive
    /\ ret' = <<mm[m].address, mm[m].length>>
    /\ mm' = MmReleaseOf(mm, m)
    /\ op' = Op("MmRelease", m, m, invalid, 0)
    /\ calls' = <<>>
    /\ err' = "none"
    /\ SetMmMon(FALSE, FALSE)
    /\ UNCHANGED <<run, twin, kern, fdVars, fdMon, mlive, mapped, pc>>

\* swap(mmap & other), other a different object
MmSwap(x, y) ==
    /\ pc = "idle"
    /\ run = "mmap"
    /\ x \in mlive
    /\ y \in mlive
    /\ x # y
    /\ mm' = MmSwapOf(mm, x, y)
    /\ op' = Op("MmSwap", x, y, invalid, 0)
    /\ calls' = <<>>
    /\ err' = "none"
    /\ ret' = <<>>
    /\ UNCHANGED <<run, twin, kern, fdVars, fdMon, mmMon, mlive, mapped, pc>>

\* ------------------------------------------------------------- branchless.hh
\* the widths, in bits, of the integer types (sizeof(T) of 1, 2, 4 and 8)
Widths == {8, 16, 32, 64}
\* an integer of width w is the set of the positions of its 1 bits, bit 0 the
\* least significant; a signed one is in two's complement
Bits(w) == 0..(w - 1)
Lowest(a) == CHOOSE i \in a : \A j \in a : i <= j
Highest(a) == CHOOSE i \in a : \A j \in a : j <= i

\* ^, &, |, >> and ~ of C++
Xor(a, b) == (a \ b) \cup (b \ a)
And(a, b) == a \cap b
Or(a, b) == a \cup b
Shr(a, k) == {i - k : i \in {j \in a : j >= k}}
Not(a, w) == Bits(w) \ a
\* ++ and -- at width w (unsigned arithmetic wraps)
Inc(a, w) ==
    LET z == Bits(w) \ a
    IN IF z = {} THEN {} ELSE (a \ Bits(Lowest(z))) \cup {Lowest(z)}
Dec(a, w) ==
    IF a = {} THEN Bits(w) ELSE (a \ {Lowest(a)}) \cup Bits(Lowest(a))
\* a - b at width w, by a + ~b + 1 with the carry rippling from bit i on
RECURSIVE AddFrom(_, _, _, _, _)
AddFrom(a, b, i, c, w) ==
    IF i = w THEN {}
    ELSE LET n == (IF i \in a THEN 1 ELSE 0) + (IF i \in b THEN 1 ELSE 0)
                  + (IF c THEN 1 ELSE 0)
         IN (IF n % 2 = 1 THEN {i} ELSE {}) \cup AddFrom(a, b, i + 1, n >= 2, w)
Sub(a, b, w) == AddFrom(a, Not(b, w), 0, TRUE, w)
\* unary - at width w
Neg(a, w) == Inc(Not(a, w), w)

\* the conversion of a signed value of width w to a wider signed type
SignExtend(a, w, w2) == IF (w - 1) \in a THEN a \cup (w..(w2 - 1)) ELSE a
\* the width in which a T of width w is computed with: int for a narrower T
Promoted(w) == IF w < 32 THEN 32 ELSE w
\* the most negative value of a signed type of width w
MostNegative(w) == {w - 1}
\* x < y
Less(x, y, w, signed) ==
    LET d == Xor(x, y)
    IN IF d = {} THEN FALSE
       ELSE IF signed /\ Highest(d) = w - 1 THEN (w - 1) \in x
       ELSE Highest(d) \in y
\* -(x < y): the bool is 1 or 0, its negative all ones or zero in any width
NegBool(b, w) == IF b THEN Bits(w) ELSE {}

\* sign_extend<T>(value).mask(): the value is converted to the type of twice
\* the width (dword) and hiword, the member laid over its high-order half, is
\* read; the high-order half is the second member on a little-endian target,
\* which is the layout the comment at the head of the file describes
mask(value, w) ==
    LET dword == SignExtend(value, w, 2 * w)
    IN Shr(dword, w)

\* an abs that forgets `- mask`
absNoSubtract(value, w) ==
    LET pw == Promoted(w)
        v == SignExtend(value, w, pw)
        m == SignExtend(mask(value, w), w, pw)
    IN Xor(v, m)

\* abs(T value): `(value ^ mask) - mask`, computed in int when T is narrower,
\* so the result has Promoted(w) bits
abs(value, w) ==
    LET pw == Promoted(w)
        v == SignExtend(value, w, pw)
        m == SignExtend(mask(value, w), w, pw)
    IN Sub(Xor(v, m), m, pw)
\* `(value ^ mask) - mask` overflows the signed type it is computed in
absOverflows(value, w) == w = Promoted(w) /\ value = MostNegative(w)

\* a min that starts from x instead of y
minFromX(x, y, w, signed) == Xor(x, And(Xor(x, y), NegBool(Less(x, y, w, signed), w)))

\* min(x, y): `y ^ ((x ^ y) & -(x < y))`, converted back to T
min(x, y, w, signed) == Xor(y, And(Xor(x, y), NegBool(Less(x, y, w, signed), w)))

\* max(x, y): `x ^ ((x ^ y) & -(x < y))`, converted back to T
max(x, y, w, signed) == Xor(x, And(Xor(x, y), NegBool(Less(x, y, w, signed), w)))

\* an isa that tests value + 1 instead of value - 1
isaPlusOne(value, w) == And(Inc(value, w), value) = {}

\* power_of_2::isa(value): `((value - 1) & value) == 0`
isa(value, w) == And(Dec(value, w), value) = {}

\* the five `value |= value >> k;` of roundup and roundup_minus_1
smear(value) ==
    LET v1 == Or(value, Shr(value, 1))
        v2 == Or(v1, Shr(v1, 2))
        v3 == Or(v2, Shr(v2, 4))
        v4 == Or(v3, Shr(v3, 8))
    IN Or(v4, Shr(v4, 16))

\* power_of_2::roundup(value): `--value;`, the five smears, `++value;`
roundup(value, w) == Inc(smear(Dec(value, w)), w)

\* power_of_2::isa_minus_1(value): `(value & (value + 1)) == 0`
isa_minus_1(value, w) == And(value, Inc(value, w)) = {}

\* power_of_2::roundup_minus_1(value): `--value;` and the five smears
roundup_minus_1(value, w) == smear(Dec(value, w))

\* the arguments the functions are called with: every value of width 8; for
\* the wider types every run of 1 bits, every value with at most two 1 bits,
\* and the complements of those
Runs(w) == {i..j : i \in Bits(w), j \in Bits(w)}
Sparse(w) == {{i, j} : i \in Bits(w), j \in Bits(w)} \cup {{}}
KernValues(w) ==
    IF w = 8 THEN SUBSET Bits(w)
    ELSE (Runs(w) \cup Sparse(w)) \cup {Not(a, w) : a \in Runs(w) \cup Sparse(w)}
\* the second argument of min and max: 0, the powers of two, and the
\* complements of those (among them -1 and both extreme values of either kind)
Edge(w) == LET e == {{}} \cup {{i} : i \in Bits(w)} IN e \cup {Not(a, w) : a \in e}
KernFirst(w) == IF w = 8 THEN KernValues(w) ELSE Edge(w)

KernCall(f, w, signed, arity, x, y) ==
    [f |-> f, w |-> w, signed |-> signed, arity |-> arity, x |-> x, y |-> y,
     out |-> {}, flag |-> FALSE, ub |-> FALSE]
KernIdle == KernCall("none", 8, FALSE, 1, {}, {})
\* ------------------------------------------------------------- kernel: steps
raiiVars == <<run, fd, live, mm, mlive, mapped, pc, op, calls, err, ret,
              adopted, closed, fdDisc, badUnmap, mmDisc, twin>>

\* a function of one argument is called on kern.x
KernUnary(signed) ==
    /\ run = "kernel"
    /\ kern.f = "none"
    /\ kern.arity = 1
    /\ kern.signed = signed
    /\ UNCHANGED raiiVars

\* abs(value) of a signed T; where the subtraction overflows the behaviour is
\* undefined: the result is any value
KAbs ==
    /\ KernUnary(TRUE)
    /\ IF absOverflows(kern.x, kern.w)
       THEN \E r \in Edge(kern.w) :
                kern' = [kern EXCEPT !.f = "abs", !.out = r, !.ub = TRUE]
       ELSE kern' = [kern EXCEPT !.f = "abs", !.out = abs(kern.x, kern.w)]

\* min(x, y) and max(x, y), of a signed or an unsigned T
KMin ==
    /\ run = "kernel"
    /\ kern.f = "none"
    /\ kern.arity = 2
    /\ kern' = [kern EXCEPT !.f = "min", !.out = min(kern.x, kern.y, kern.w, kern.signed)]
    /\ UNCHANGED raiiVars
KMax ==
    /\ run = "kernel"
    /\ kern.f = "none"
    /\ kern.arity = 2
    /\ kern' = [kern EXCEPT !.f = "max", !.out = max(kern.x, kern.y, kern.w, kern.signed)]
    /\ UNCHANGED raiiVars

\* the functions of power_of_2, of an unsigned T
KIsa ==
    /\ KernUnary(FALSE)
    /\ kern' = [kern EXCEPT !.f = "isa", !.flag = isa(kern.x, kern.w)]
KRoundup ==
    /\ KernUnary(FALSE)
    /\ kern' = [kern EXCEPT !.f = "roundup", !.out = roundup(kern.x, kern.w)]
KIsaMinus1 ==
    /\ KernUnary(FALSE)
    /\ kern' = [kern EXCEPT !.f = "isa_minus_1", !.flag = isa_minus_1(kern.x, kern.w)]
KRoundupMinus1 ==
    /\ KernUnary(FALSE)
    /\ kern' = [kern EXCEPT !.f = "roundup_minus_1", !.out = roundup_minus_1(kern.x, kern.w)]

\* ------------------------------------------------------------- two fd classes
\* fd of part_000 ("A") and fd of part_001 ("B"), each in a program of its own
Variants == {"A", "B"}
\* a program before its first operation
SideIdle ==
    [fd |-> [w \in FdNames |-> invalid], live |-> {}, pc |-> "idle",
     op |-> Op("none", "a", "a", invalid, 0), calls |-> <<>>, err |-> "none",
     ret |-> <<>>]

\* what the caller must respect to apply operation o: constructors make
\* objects that do not exist, everything else needs live objects
SideGuard(s, o) ==
    /\ s.pc = "idle"
    /\ CASE o.name = "FdConstruct" -> o.self \notin s.live
         [] o.name = "FdMoveConstruct" -> o.self \notin s.live /\ o.other \in s.live
         [] o.name = "FdAssignMove" -> o.self \in s.live /\ o.other \in s.live
         [] o.name = "FdSwap" ->
              o.self \in s.live /\ o.other \in s.live /\ o.self # o.other
         [] OTHER -> o.self \in s.live

\* operation o returns normally; f is the fd state once close() has returned
SideComplete(s, o, f) ==
    [s EXCEPT !.fd = FdRest(o, f), !.live = LiveRest(o, s.live),
              !.pc = "idle", !.err = "none"]

\* close() throws e out of operation o
SideRaise(s, o, e) ==
    [s EXCEPT !.fd = IF o.name = "FdDestroy" THEN [s.fd EXCEPT ![o.self] = invalid]
                     ELSE s.fd,
              !.live = IF o.name = "FdDestroy" THEN s.live \ {o.self} ELSE s.live,
              !.pc = "idle", !.err = e]

\* the program of variant v applies operation o, up to its first ::close
SideStep(v, s, o) ==
    LET b == [s EXCEPT !.op = o, !.calls = <<>>, !.err = "none", !.ret = <<>>]
        h == s.fd[o.self]
        entry == IF CallsClose(v, h) THEN CloseEntry(v, h) ELSE "return"
    IN CASE o.name = "FdConstruct" ->
              [b EXCEPT !.fd = FdAdopt(s.fd, o.self, o.raw), !.live = @ \cup {o.self}]
         [] o.name = "FdMoveConstruct" ->
              [b EXCEPT !.fd = FdMoveFrom(s.fd, o.self, o.other),
                        !.live = @ \cup {o.self}]
         [] o.name = "FdRelease" ->
              [b EXCEPT !.fd = FdReleaseOf(s.fd, o.self), !.ret = <<h>>]
         [] o.name = "FdSwap" -> [b EXCEPT !.fd = FdSwapOf(s.fd, o.self, o.other)]
         [] o.name = "FdGet" -> [b EXCEPT !.ret = <<h>>]
         [] o.name = "FdBool" -> [b EXCEPT !.ret = <<IF FdBool(h) THEN 1 ELSE 0>>]
         [] entry = "loop" -> [b EXCEPT !.pc = "close"]
         [] entry = "EBADF" -> SideRaise(b, o, "EBADF")
         [] OTHER -> SideComplete(b, o, s.fd)

\* one iteration of the loop of fd::close() in a program that is inside it
SideClose(s, r) ==
    LET h == s.fd[s.op.self]
        c == [s EXCEPT !.calls = Append(@, Call("close", h, 0, r))]
    IN CASE LoopAfter(r) = "continue" -> c
         [] LoopAfter(r) = "break" -> SideComplete(c, s.op, FdAfterClose(s.fd, s.op.self))
         [] OTHER -> SideRaise(c, s.op, r)

\* ------------------------------------------------------------- twin: steps
twinFrame == <<run, fd, live, mm, mlive, mapped, pc, op, calls, err, ret,
               adopted, closed, fdDisc, badUnmap, mmDisc, kern>>

\* both programs apply the same operation
TwinOp(o) ==
    /\ \A v \in Variants : SideGuard(twin[v], o)
    /\ twin' = [v \in Variants |-> SideStep(v, twin[v], o)]
    /\ UNCHANGED twinFrame

TwinConstruct(w, raw) ==
    /\ run = "twin"
    /\ TwinOp(Op("FdConstruct", w, w, raw, 0))
TwinMoveConstruct(w, s) ==
    /\ run = "twin"
    /\ TwinOp(Op("FdMoveConstruct", w, s, invalid, 0))
TwinAssignMove(d, s) ==
    /\ run = "twin"
    /\ TwinOp(Op("FdAssignMove", d, s, invalid, 0))
TwinAssignRaw(d, raw) ==
    /\ run = "twin"
    /\ TwinOp(Op("FdAssignRaw", d, d, raw, 0))
TwinReset(d, raw) ==
    /\ run = "twin"
    /\ TwinOp(Op("FdReset", d, d, raw, 0))
TwinDestroy(d) ==
    /\ run = "twin"
    /\ TwinOp(Op("FdDestroy", d, d, invalid, 0))
TwinRelease(w) ==
    /\ run = "twin"
    /\ TwinOp(Op("FdRelease", w, w, invalid, 0))
TwinSwap(x, y) ==
    /\ run = "twin"
    /\ TwinOp(Op("FdSwap", x, y, invalid, 0))
TwinGet(w) ==
    /\ run = "twin"
    /\ TwinOp(Op("FdGet", w, w, invalid, 0))
TwinBool(w) ==
    /\ run = "twin"
    /\ TwinOp(Op("FdBool", w, w, invalid, 0))

\* the OS gives the same result to the ::close call of every program that is
\* inside the loop
TwinClose ==
    /\ run = "twin"
    /\ \E v \in Variants : twin[v].pc = "close"
    /\ \E r \in CloseResults :
         /\ r = "EINTR" =>
              \A v \in Variants :
                  Cardinality({i \in DOMAIN twin[v].calls : twin[v].calls[i].res = "EINTR"})
                      < MaxEintr
         /\ twin' = [v \in Variants |->
                        IF twin[v].pc = "close" THEN SideClose(twin[v], r) ELSE twin[v]]
    /\ UNCHANGED twinFrame

\* ------------------------------------------------------------- specification
\* the state after construction, whatever the run
Fresh ==
    /\ fd = [w \in FdAll |-> invalid]
    /\ live = {}
    /\ mm = [m \in MmNames |-> NoRegion]
    /\ mlive = {}
    /\ mapped = [a \in Addr |-> 0]
    /\ pc = "idle"
    /\ op = Op("none", "a", "a", invalid, 0)
    /\ calls = <<>>
    /\ err = "none"
    /\ ret = <<>>
    /\ adopted = {}
    /\ closed = [h \in FD |-> 0]
    /\ fdDisc = (run \in {"fdA", "fdB"})
    /\ badUnmap = FALSE
    /\ mmDisc = (run = "mmap")
    /\ twin = [v \in Variants |-> SideIdle]

Init ==
    /\ run \in {"fdA", "fdB", "mmap"}
    /\ Fresh
    /\ kern = KernIdle

Next ==
    \/ \E w \in FdNames, raw \in Raw : FdConstruct(w, raw)
    \/ \E w \in FdNames, s \in FdNames : FdMoveConstruct(w, s)
    \/ \E d \in FdNames, s \in FdNames : FdAssignMove(d, s)
    \/ \E d \in FdNames, raw \in Raw : FdAssignRaw(d, raw)
    \/ \E d \in FdNames, raw \in Raw : FdReset(d, raw)
    \/ \E d \in FdNames : FdDestroy(d)
    \/ \E w \in FdNames : FdRelease(w)
    \/ \E x \in FdNames, y \in FdNames : FdSwap(x, y)
    \/ \E w \in FdNames : FdGet(w)
    \/ FdCloseLoop
    \/ \E m \in MmNames, f \in FdNames : MmCtorFd(m, f)
    \/ \E m \in MmNames, n \in Lens : MmCtorLen(m, n)
    \/ \E m \in MmNames, s \in MmNames : MmMoveConstruct(m, s)
    \/ \E d \in MmNames, s \in MmNames : MmAssignMove(d, s)
    \/ \E m \in MmNames : MmDestroy(m)
    \/ \E m \in MmNames, r \in ResetArgs : MmReset(m, r)
    \/ \E m \in MmNames : MmRelease(m)
    \/ \E x \in MmNames, y \in MmNames : MmSwap(x, y)

Spec == Init /\ [][Next]_vars

\* the fd classes alone, with ::close not failing with EINTR for ever: a step
\* that leaves the loop of fd::close() is taken if it stays possible
FdInit ==
    /\ run \in {"fdA", "fdB"}
    /\ Fresh
    /\ kern = KernIdle
FdNext ==
    \/ \E w \in FdNames, raw \in Raw : FdConstruct(w, raw)
    \/ \E w \in FdNames, s \in FdNames : FdMoveConstruct(w, s)
    \/ \E d \in FdNames, s \in FdNames : FdAssignMove(d, s)
    \/ \E d \in FdNames, raw \in Raw : FdAssignRaw(d, raw)
    \/ \E d \in FdNames, raw \in Raw : FdReset(d, raw)
    \/ \E d \in FdNames : FdDestroy(d)
    \/ \E w \in FdNames : FdRelease(w)
    \/ \E x \in FdNames, y \in FdNames : FdSwap(x, y)
    \/ \E w \in FdNames : FdGet(w)
    \/ FdCloseLoop
CloseEnds == FdCloseLoop /\ pc' # "close"
FairSpec == FdInit /\ [][FdNext]_vars /\ WF_vars(CloseEnds)

\* the two fd classes side by side
TwinInit ==
    /\ run = "twin"
    /\ Fresh
    /\ kern = KernIdle
TwinNext ==
    \/ \E w \in FdNames, raw \in Raw : TwinConstruct(w, raw)
    \/ \E w \in FdNames, s \in FdNames : TwinMoveConstruct(w, s)
    \/ \E d \in FdNames, s \in FdNames : TwinAssignMove(d, s)
    \/ \E d \in FdNames, raw \in Raw : TwinAssignRaw(d, raw)
    \/ \E d \in FdNames, raw \in Raw : TwinReset(d, raw)
    \/ \E d \in FdNames : TwinDestroy(d)
    \/ \E w \in FdNames : TwinRelease(w)
    \/ \E x \in FdNames, y \in FdNames : TwinSwap(x, y)
    \/ \E w \in FdNames : TwinGet(w)
    \/ \E w \in FdNames : TwinBool(w)
    \/ TwinClose
TwinSpec == TwinInit /\ [][TwinNext]_vars

\* one call of a function of branchless.hh, on every argument of KernInputs
KernInit ==
    /\ run = "kernel"
    /\ Fresh
    /\ \E w \in Widths, signed \in BOOLEAN :
         \/ \E x \in KernValues(w) : kern = KernCall("none", w, signed, 1, x, {})
         \/ \E x \in KernFirst(w), y \in Edge(w) :
                kern = KernCall("none", w, signed, 2, x, y)
KernNext ==
    \/ KAbs
    \/ KMin
    \/ KMax
    \/ KIsa
    \/ KRoundup
    \/ KIsaMinus1
    \/ KRoundupMinus1
KernSpec == KernInit /\ [][KernNext]_vars

\* ------------------------------------------------------------- properties
\* the indices of the ::close calls of the current operation that returned res
Closes(res) == {i \in DOMAIN calls : calls[i].call = "close" /\ calls[i].res = res}
CloseCalls == {i \in DOMAIN calls : calls[i].call = "close"}
\* a ::close call of the current operation failed with an errno other than EINTR
CloseFailed == \E i \in CloseCalls : calls[i].res \notin {"ok", "EINTR"}

\* C1: while every raw descriptor is adopted at most once and only
\* move-construct, move-assign, swap and destroy are applied, with no ::close
\* failing for good, no descriptor is closed twice, none is closed that was
\* not adopted, and once every fd object is destroyed each adopted descriptor
\* has been closed exactly once.
C1_ExactlyOnceClose ==
    fdDisc =>
        /\ \A h \in FD : closed[h] <= 1
        /\ \A h \in FD \ adopted : closed[h] = 0
        /\ (live = {} /\ pc = "idle") => \A h \in adopted : closed[h] = 1

C1_Witness ==
    /\ fdDisc
    /\ pc = "idle"
    /\ op.name = "FdDestroy"
    /\ live = {}
    /\ adopted = FD
    /\ \A h \in FD : closed[h] = 1

\* no two live fd objects hold the same non-sentinel descriptor
Exclusive ==
    \A x \in live, y \in live : (x # y /\ fd[x] = fd[y]) => fd[x] = invalid

\* C2 (as claimed): in every reachable state no two live fd objects hold the
\* same non-sentinel descriptor.
C2_ExclusiveAlways == Exclusive

\* the step constructs, assigns or resets an fd object from a raw value that
\* another live fd object holds at that moment
AliasingAdoption ==
    /\ op'.name \in {"FdConstruct", "FdAssignRaw", "FdReset"}
    /\ pc' = "idle"
    /\ op'.raw # invalid
    /\ \E w \in live \ {op'.self} : fd[w] = op'.raw

\* C2 (amended): every operation preserves exclusive ownership, except the
\* adoption of a raw value that another live fd object already holds.
C2_ExclusivePreserved == [][(Exclusive /\ ~AliasingAdoption) => Exclusive']_vars

C2_Witness ==
    /\ op.name = "FdSwap"
    /\ live = FdNames
    /\ fd["a"] # invalid
    /\ fd["b"] # invalid
    /\ fd["a"] # fd["b"]

\* mmap(raii::fd &&, ...) has returned, raised, or ended in std::terminate
CtorDone == op.name = "MmCtorFd" /\ pc \in {"idle", "halt"}

\* the order of the OS calls of mmap(raii::fd &&, ...): one ::fstat first,
\* ::mmap second and only if ::fstat succeeded, ::close calls last, all of
\* them on the descriptor the argument held, and no ::munmap
CtorCalls ==
    /\ Len(calls) >= 1
    /\ calls[1].call = "fstat"
    /\ calls[1].arg = op.raw
    /\ \A i \in DOMAIN calls :
         /\ calls[i].call \in {"fstat", "mmap", "close"}
         /\ calls[i].call = "fstat" => i = 1
         /\ calls[i].call = "mmap" => (i = 2 /\ calls[1].res = "ok")
         /\ calls[i].call = "close" => calls[i].arg = op.raw
    /\ calls[1].res = "ok" => (Len(calls) >= 2 /\ calls[2].call = "mmap")

\* ::fstat or ::mmap failed, so the constructor body threw
CtorThrown == calls[1].res # "ok" \/ calls[2].res # "ok"

\* C3 (as claimed): on every exit of mmap(raii::fd &&, ...) the argument holds
\* the sentinel, the descriptor it held has been closed exactly once, the
\* local fd is gone, and the OS calls are fstat, mmap, close in that order.
C3_SinkAlwaysCloses ==
    CtorDone =>
        /\ fd[op.other] = invalid
        /\ pc = "idle" => Local \notin live
        /\ CtorCalls
        /\ op.raw # invalid => Cardinality(Closes("ok")) = 1

\* C3 (amended): as claimed when no ::close fails with an errno other than
\* EINTR; when one does, the descriptor is left open, and the constructor
\* raises that errno, or the process terminates if ::fstat or ::mmap had failed.
C3_SinkCloses ==
    CtorDone =>
        /\ fd[op.other] = invalid
        /\ pc = "idle" => Local \notin live
        /\ CtorCalls
        /\ op.raw = invalid => CloseCalls = {}
        /\ (op.raw # invalid /\ ~CloseFailed) =>
             /\ Cardinality(Closes("ok")) = 1
             /\ calls[Len(calls)].res = "ok"
             /\ pc = "idle"
        /\ CloseFailed =>
             /\ Closes("ok") = {}
             /\ calls[Len(calls)].res = "EIO"
             /\ IF CtorThrown
                THEN pc = "halt" /\ err = "terminate"
                ELSE pc = "idle" /\ err = "EIO"
        /\ (pc = "idle" /\ err = "none") <=> op.self \in mlive

C3_Witness ==
    /\ CtorDone
    /\ err = "none"
    /\ op.raw # invalid
    /\ Closes("EINTR") # {}
    /\ Cardinality(Closes("ok")) = 1
    /\ op.self \in mlive
    /\ mm[op.self].address \in Addr

\* C4: while only successful constructions, move-construct, move-assign, swap
\* and destroy are applied to mmap objects and every ::munmap succeeds,
\* ::munmap is only ever called on a region that is mapped at that moment and
\* with the length it was mapped with (so never twice on one mapping), and
\* once every mmap object is destroyed no mapping is left.
C4_ExactlyOnceUnmap ==
    mmDisc =>
        /\ ~badUnmap
        /\ (mlive = {} /\ pc = "idle") => \A a \in Addr : mapped[a] = 0

C4_Witness ==
    /\ mmDisc
    /\ pc = "idle"
    /\ op.name = "MmDestroy"
    /\ calls # <<>>
    /\ calls[1].len = MaxLen
    /\ mlive = {}
    /\ \A a \in Addr : mapped[a] = 0

\* C5: a move-construct, or a move-assign that returns normally, from an
\* object S into a different object D leaves S at the sentinel (fd: -1; mmap:
\* MAP_FAILED and 0) and D holding what S held before the operation.
C5_MoveEmptiesSource ==
    [][(pc' = "idle" /\ err' = "none" /\ op'.self # op'.other) =>
        /\ op'.name \in {"FdMoveConstruct", "FdAssignMove"} =>
             /\ fd'[op'.other] = invalid
             /\ fd'[op'.self] = fd[op'.other]
        /\ op'.name \in {"MmMoveConstruct", "MmAssignMove"} =>
             /\ mm'[op'.other] = NoRegion
             /\ mm'[op'.self] = mm[op'.other]]_vars

C5_Witness ==
    /\ pc = "idle"
    /\ err = "none"
    /\ op.name = "MmAssignMove"
    /\ op.self # op.other
    /\ calls # <<>>
    /\ mm[op.self].address \in Addr
    /\ mm[op.self].length = MaxLen
    /\ mm[op.other] = NoRegion

\* C6: release() returns what the object held, leaves it at the sentinel
\* (operator bool false), issues no OS call, raises nothing and ends no
\* lifetime; destroying the object right after issues no OS call either.
C6_ReleaseGivesUp ==
    [][/\ op'.name = "FdRelease" =>
            /\ ret' = <<fd[op'.self]>>
            /\ fd'[op'.self] = invalid
            /\ ~FdBool(fd'[op'.self])
            /\ calls' = <<>>
            /\ err' = "none"
            /\ live' = live
            /\ \A w \in FdAll \ {op'.self} : fd'[w] = fd[w]
       /\ op'.name = "MmRelease" =>
            /\ ret' = <<mm[op'.self].address, mm[op'.self].length>>
            /\ mm'[op'.self] = NoRegion
            /\ ~MmBool(mm'[op'.self])
            /\ calls' = <<>>
            /\ err' = "none"
            /\ mlive' = mlive
            /\ mapped' = mapped
            /\ \A m \in MmNames \ {op'.self} : mm'[m] = mm[m]
       /\ (op.name \in {"FdRelease", "MmRelease"} /\ pc = "idle"
           /\ op'.name \in {"FdDestroy", "MmDestroy"} /\ op'.self = op.self) =>
            /\ calls' = <<>>
            /\ err' = "none"
            /\ pc' = "idle"
            /\ mapped' = mapped
            /\ op'.self \notin (live' \cup mlive')]_vars

C6_Witness ==
    /\ op.name = "FdRelease"
    /\ ret # <<>>
    /\ ret[1] \in FD
    /\ op.self \in live
    /\ fd[op.self] = invalid
    /\ calls = <<>>

\* the value an assignment or reset is about to adopt
FdNew == IF op'.name = "FdAssignMove" THEN fd[op'.other] ELSE op'.raw
MmNew ==
    IF op'.name = "MmAssignMove" THEN mm[op'.other]
    ELSE [address |-> op'.raw, length |-> op'.len]
\* the step ends, normally, an assignment or reset of an object that owned
\* something
FdReplaced ==
    /\ pc' = "idle"
    /\ err' = "none"
    /\ op'.name \in {"FdAssignMove", "FdAssignRaw", "FdReset"}
    /\ fd[op'.self] # invalid
MmReplaced ==
    /\ pc' = "idle"
    /\ err' = "none"
    /\ op'.name \in {"MmAssignMove", "MmReset"}
    /\ mm[op'.self].address # MAP_FAILED
\* the calls of the operation: interrupted ::close(h) calls, then one that
\* succeeded; resp. one ::munmap of the old pair that succeeded
FdReleasedOld ==
    /\ calls' # <<>>
    /\ \A i \in DOMAIN calls' :
         /\ calls'[i].call = "close"
         /\ calls'[i].arg = fd[op'.self]
         /\ calls'[i].res = IF i = Len(calls') THEN "ok" ELSE "EINTR"
MmReleasedOld ==
    calls' = <<Call("munmap", mm[op'.self].address, mm[op'.self].length, "ok")>>
\* until the release has succeeded the object holds its old value
FdHeldDuringClose ==
    (pc' = "close" /\ op'.name # "MmCtorFd") =>
        /\ fd' = fd
        /\ fd'[op'.self] # invalid
        /\ \A i \in DOMAIN calls' : calls'[i].arg = fd'[op'.self]

\* C7 (as claimed): an assignment or reset of an object that owns h closes
\* (unmaps) h once, before the new value is taken; the new value is not closed
\* (unmapped) by the operation and is what the object holds afterwards.
C7_ReleaseThenAdoptAlways ==
    [][/\ FdHeldDuringClose
       /\ FdReplaced =>
            /\ FdReleasedOld
            /\ \A i \in DOMAIN calls' : calls'[i].arg # FdNew
            /\ fd'[op'.self] = FdNew
       /\ MmReplaced =>
            /\ MmReleasedOld
            /\ \A i \in DOMAIN calls' : calls'[i].arg # MmNew.address
            /\ mm'[op'.self] = MmNew]_vars

\* C7 (amended): the same, for a new value that is not the one the object
\* already owns (so the source of a move-assign is another object that holds
\* something else).
C7_ReleaseThenAdopt ==
    [][/\ FdHeldDuringClose
       /\ FdReplaced =>
            /\ FdReleasedOld
            /\ FdNew # fd[op'.self] =>
                 /\ \A i \in DOMAIN calls' : calls'[i].arg # FdNew
                 /\ fd'[op'.self] = FdNew
       /\ MmReplaced =>
            /\ MmReleasedOld
            /\ MmNew.address # mm[op'.self].address =>
                 /\ \A i \in DOMAIN calls' : calls'[i].arg # MmNew.address
                 /\ mm'[op'.self] = MmNew]_vars

C7_Witness ==
    /\ pc = "idle"
    /\ err = "none"
    /\ op.name = "FdAssignMove"
    /\ op.self # op.other
    /\ Len(calls) = 2
    /\ calls[1].res = "EINTR"
    /\ calls[2].res = "ok"
    /\ fd[op.self] \in FD
    /\ fd[op.self] # calls[2].arg

\* the step is one ::close(h) call of the loop, h the handle being released,
\* and what follows from its result r
CloseLoopStep(h, r) ==
    /\ calls' = Append(calls, Call("close", h, 0, r))
    /\ r = "EINTR" =>
         /\ pc' = "close"
         /\ op' = op
         /\ fd' = fd
         /\ live' = live
    /\ r = "ok" =>
         /\ pc' = "idle"
         /\ err' = err
         /\ op.name \in {"FdDestroy", "MmCtorFd"} => CloseTarget(op) \notin live'
         /\ op.name \in {"FdAssignRaw", "FdReset"} => fd'[op.self] = op.raw
         /\ (op.name = "FdAssignMove" /\ op.self = op.other) => fd'[op.self] = invalid
    /\ r \notin {"ok", "EINTR"} =>
         /\ pc' # "close"
         /\ err' = IF err = "none" THEN r ELSE "terminate"
         /\ op.name \notin {"FdDestroy", "MmCtorFd"} => (fd' = fd /\ live' = live)

\* C8: inside the loop every step is a ::close(h) on the handle being
\* released: after EINTR the loop goes on with h still held, the first other
\* failure raises that errno (std::terminate if an exception is in flight) and
\* ends the loop, the first success ends the loop with h given up; outside
\* the loop no ::close is issued, and no operation ends on an EINTR.
C8_InterruptRetry ==
    [][/\ pc = "close" =>
            /\ fd[CloseTarget(op)] # invalid
            /\ \E r \in CloseResults : CloseLoopStep(fd[CloseTarget(op)], r)
       /\ pc # "close" => \A i \in DOMAIN calls' : calls'[i].call # "close"
       /\ pc' # "close" =>
            \A i \in DOMAIN calls' :
                (calls'[i].call = "close" /\ calls'[i].res = "EINTR") => i < Len(calls')
       /\ \A i \in DOMAIN calls' :
            (calls'[i].call = "close" /\ calls'[i].res # "EINTR") => i = Len(calls')]_vars

C8_Witness ==
    /\ pc = "idle"
    /\ op.name = "FdReset"
    /\ Len(calls) = 2
    /\ calls[1] = Call("close", fd[op.self], 0, "EINTR")
    /\ calls[2] = Call("close", fd[op.self], 0, "EIO")
    /\ err = "EIO"

\* the step begins an assignment, reset or destruction of an fd object of
\* part_001 that holds the sentinel
StrictOnSentinel ==
    /\ run = "fdB"
    /\ pc = "idle"
    /\ op'.name \in {"FdAssignMove", "FdAssignRaw", "FdReset", "FdDestroy"}
    /\ fd[op'.self] = invalid

LenientOnSentinel ==
    /\ pc = "idle"
    /\ \/ /\ run = "fdA"
          /\ op'.name \in {"FdAssignMove", "FdAssignRaw", "FdReset", "FdDestroy"}
          /\ fd[op'.self] = invalid
       \/ /\ op'.name \in {"MmAssignMove", "MmReset", "MmDestroy"}
          /\ mm[op'.self].address = MAP_FAILED
\* the step repeats a reset with default arguments that has just returned
ResetAgain ==
    /\ pc = "idle"
    /\ err = "none"
    /\ run # "fdB"
    /\ op.name \in {"FdReset", "MmReset"}
    /\ op.raw = (IF op.name = "FdReset" THEN invalid ELSE nullptr)
    /\ op.len = 0
    /\ op' = op
    /\ pc' = "idle"
\* the step destroys the object that has just been released, moved from or
\* reset with default arguments
DestroyEmptied ==
    /\ pc = "idle"
    /\ err = "none"
    /\ run # "fdB"
    /\ op'.name \in {"FdDestroy", "MmDestroy"}
    /\ \/ op.name \in {"FdRelease", "MmRelease"} /\ op'.self = op.self
       \/ /\ op.name \in {"FdMoveConstruct", "FdAssignMove", "MmMoveConstruct", "MmAssignMove"}
          /\ op'.self = op.other
       \/ /\ op.name = "FdReset" /\ op.raw = invalid /\ op'.self = op.self
       \/ /\ op.name = "MmReset" /\ op.raw = nullptr /\ op.len = 0 /\ op'.self = op.self

\* C10 for fd: on the sentinel no ::close and no error; reset() twice is
\* reset() once; destroying a released, moved-from or reset object is silent.
C10_FdIdempotent ==
    [][run = "fdA" =>
        /\ LenientOnSentinel => (calls' = <<>> /\ err' = "none")
        /\ ResetAgain => (calls' = <<>> /\ err' = "none" /\ fd' = fd)
        /\ DestroyEmptied => (calls' = <<>> /\ err' = "none")]_vars

\* C10: the same for fd of part_000 and for mmap.
C10_ReleaseIdempotent ==
    [][/\ LenientOnSentinel => (calls' = <<>> /\ err' = "none")
       /\ ResetAgain => (calls' = <<>> /\ err' = "none" /\ fd' = fd /\ mm' = mm)
       /\ DestroyEmptied => (calls' = <<>> /\ err' = "none")]_vars

\* C11: for every live mmap object, the address is MAP_FAILED exactly when
\* the length is 0.
C11_AddressLengthCoupled ==
    \A m \in mlive : (mm[m].address = MAP_FAILED) <=> (mm[m].length = 0)

\* the operation in hand was a release by ::close calls and has left the loop
\* of fd::close(): every call but the last was interrupted, the last one
\* either failed, and its errno is raised, or succeeded, and the object has
\* given up the handle and gone on to the rest of the operation
ReleaseEnded ==
    /\ pc = "idle"
    /\ op.name \in {"FdAssignMove", "FdAssignRaw", "FdReset", "FdDestroy"}
    /\ calls # <<>>
    /\ CloseCalls = DOMAIN calls
    /\ Cardinality(CloseCalls) = Cardinality(Closes("EINTR")) + 1
    /\ calls[Len(calls)].res # "EINTR"
    /\ IF calls[Len(calls)].res = "ok"
       THEN /\ err = "none"
            /\ op.name = "FdDestroy" => op.self \notin live
            /\ op.name \in {"FdAssignRaw", "FdReset"} => fd[op.self] = op.raw
            /\ op.name = "FdAssignMove" => fd[op.other] = invalid
       ELSE err = calls[Len(calls)].res

\* C12: with ::close not interrupted for ever, a destruction, reset or
\* assignment that has entered the loop of fd::close() leaves it, either done
\* with the handle given up or with an error raised, after as many ::close
\* calls as there were interrupted ones plus one.
C12_ReleaseCompletes ==
    /\ (pc = "close") ~> ReleaseEnded
    /\ [][(pc = "close" /\ pc' # "close") => ReleaseEnded']_vars

C12_Witness ==
    /\ ReleaseEnded
    /\ op.name = "FdDestroy"
    /\ err = "none"
    /\ Len(calls) = MaxEintr + 1
    /\ Cardinality(Closes("EINTR")) = MaxEintr

\* how many of the objects in lv hold v
Owners(f, lv, v) == Cardinality({w \in lv : f[w] = v})

\* C13: swap of two different objects leaves each holding what the other
\* held (mmap: address and length together), touches no other object, issues
\* no OS call, raises nothing, ends no lifetime, and every value is held by as
\* many objects as before.
C13_SwapExchanges ==
    [][/\ op'.name = "FdSwap" =>
            /\ op'.self # op'.other
            /\ fd'[op'.self] = fd[op'.other]
            /\ fd'[op'.other] = fd[op'.self]
            /\ \A w \in FdAll \ {op'.self, op'.other} : fd'[w] = fd[w]
            /\ calls' = <<>>
            /\ err' = "none"
            /\ live' = live
            /\ \A h \in Raw : Owners(fd', live', h) = Owners(fd, live, h)
       /\ op'.name = "MmSwap" =>
            /\ op'.self # op'.other
            /\ mm'[op'.self] = mm[op'.other]
            /\ mm'[op'.other] = mm[op'.self]
            /\ \A m \in MmNames \ {op'.self, op'.other} : mm'[m] = mm[m]
            /\ calls' = <<>>
            /\ err' = "none"
            /\ mlive' = mlive
            /\ mapped' = mapped
            /\ \A r \in Region : Owners(mm', mlive', r) = Owners(mm, mlive, r)]_vars

C13_Witness ==
    /\ op.name = "MmSwap"
    /\ mlive = MmNames
    /\ mm["m"].address \in Addr
    /\ mm["n"].address \in Addr
    /\ mm["m"].length = 1
    /\ mm["n"].length = MaxLen

\* x < y ? x : y and x < y ? y : x
MinRef(x, y, w, signed) == IF Less(x, y, w, signed) THEN x ELSE y
MaxRef(x, y, w, signed) == IF Less(x, y, w, signed) THEN y ELSE x

\* C14: for signed and unsigned arguments of every width, min(x, y) is
\* x < y ? x : y and max(x, y) is x < y ? y : x.
C14_MinMaxAgree ==
    /\ kern.f = "min" => kern.out = MinRef(kern.x, kern.y, kern.w, kern.signed)
    /\ kern.f = "max" => kern.out = MaxRef(kern.x, kern.y, kern.w, kern.signed)

C14_Witness ==
    /\ kern.f = "min"
    /\ kern.signed
    /\ kern.w = 64
    /\ kern.x = Not(MostNegative(64), 64)
    /\ kern.y = MostNegative(64)
    /\ kern.out = kern.y

\* v is a power of two
PowerOf2(v) == Cardinality(v) = 1
\* the smallest power of two greater than v > 0, as a value of width w (it
\* is 0 there when it is 2^w)
NextPowerOf2(v, w) == {Highest(v) + 1} \cap Bits(w)

\* C15: for every unsigned v > 0 of every width, roundup(v) is v if v is a
\* power of two and the smallest power of two greater than v otherwise.
C15_RoundupNextPower ==
    (kern.f = "roundup" /\ kern.x # {}) =>
        kern.out = IF PowerOf2(kern.x) THEN kern.x ELSE NextPowerOf2(kern.x, kern.w)

\* C16: for every unsigned v > 0 of every width, isa(v) is true exactly when
\* v has one 1 bit; isa(0) is true.
C16_IsaOneBit ==
    kern.f = "isa" =>
        /\ kern.x # {} => (kern.flag <=> PowerOf2(kern.x))
        /\ kern.x = {} => kern.flag

C16_Witness ==
    /\ kern.f = "isa"
    /\ kern.w = 64
    /\ kern.x = {}
    /\ kern.flag

\* v < 0 ? -v : v, computed in the type abs computes in
AbsRef(v, w) ==
    LET pw == Promoted(w)
        pv == SignExtend(v, w, pw)
    IN IF (w - 1) \in v THEN Neg(pv, pw) ELSE pv

\* C17: for every signed v of every width other than the most negative
\* value, abs(v) is v < 0 ? -v : v, and computing it does not overflow.
C17_AbsAgrees ==
    (kern.f = "abs" /\ kern.x # MostNegative(kern.w)) =>
        /\ ~kern.ub
        /\ kern.out = AbsRef(kern.x, kern.w)

C17_Witness ==
    /\ kern.f = "abs"
    /\ kern.w = 64
    /\ kern.x = Not({0}, 64)
    /\ kern.out = {1}

\* the step is a reset() with default arguments that returns normally
DefaultReset ==
    /\ op'.name = "MmReset"
    /\ op'.raw = nullptr
    /\ op'.len = 0
    /\ err' = "none"
\* the step destroys or resets the object that a reset() with default
\* arguments has just returned from
AfterDefaultReset ==
    /\ pc = "idle"
    /\ err = "none"
    /\ op.name = "MmReset"
    /\ op.raw = nullptr
    /\ op.len = 0
    /\ op'.name \in {"MmDestroy", "MmReset"}
    /\ op'.self = op.self

\* C18: reset() with default arguments leaves an mmap object at the sentinel
\* pair, operator bool false; destroying or resetting it next calls no
\* ::munmap and raises nothing.
C18_DefaultResetDisowns ==
    [][/\ DefaultReset =>
            /\ mm'[op'.self] = NoRegion
            /\ ~MmBool(mm'[op'.self])
       /\ AfterDefaultReset => (calls' = <<>> /\ err' = "none")]_vars

\* the step ends an assignment or a reset with an error
ReleaseFailed ==
    /\ pc' = "idle"
    /\ err' # "none"
    /\ op'.name \in {"FdAssignMove", "FdAssignRaw", "FdReset", "MmAssignMove", "MmReset"}

\* C19: an assignment or reset whose ::close (::munmap) fails with an errno
\* other than EINTR raises that errno and changes nothing: up to and including
\* the failing call, the destination and the source hold what they held, no
\* lifetime ends and no mapping is touched.
C19_FailedReleaseKeepsState ==
    [][/\ ReleaseFailed =>
            /\ calls' # <<>>
            /\ calls'[Len(calls')].call \in {"close", "munmap"}
            /\ err' = calls'[Len(calls')].res
            /\ err' \notin {"ok", "EINTR"}
            /\ fd' = fd
            /\ live' = live
            /\ mm' = mm
            /\ mlive' = mlive
            /\ mapped' = mapped
            /\ op'.name \in {"FdAssignMove", "FdAssignRaw", "FdReset"} =>
                 fd'[op'.self] = calls'[Len(calls')].arg
            /\ op'.name \in {"MmAssignMove", "MmReset"} =>
                 /\ mm'[op'.self].address = calls'[Len(calls')].arg
                 /\ mm'[op'.self].length = calls'[Len(calls')].len
       /\ (pc' = "close" /\ op'.name # "MmCtorFd") => (fd' = fd /\ live' = live)]_vars

C19_Witness ==
    /\ pc = "idle"
    /\ err = "EIO"
    /\ op.name = "FdAssignMove"
    /\ op.self # op.other
    /\ fd[op.self] \in FD
    /\ fd[op.other] \in FD
    /\ fd[op.self] # fd[op.other]
    /\ calls[Len(calls)] = Call("close", fd[op.self], 0, "EIO")

\* C20: fed the same operations and the same ::close results, a program
\* using fd of part_000 and one using fd of part_001 are in the same state
\* after every step: the same handles in the same objects, the same ::close
\* calls issued, the same value returned, the same error raised or none.
C20_VariantsAgree == twin["A"] = twin["B"]

C20_Witness ==
    /\ twin["A"] = twin["B"]
    /\ twin["B"].op.name = "FdReset"
    /\ twin["B"].pc = "idle"
    /\ twin["B"].calls = <<>>
    /\ twin["B"].err = "none"
    /\ twin["B"].fd[twin["B"].op.self] \in FD

====
